---------------------------- MODULE Spec2Model ----------------------------
(***************************************************************************)
(* Linear-solver adapters of sfepy/solvers/ls.py: ScipyDirect (and the     *)
(* legacy Umfpack), ScipyIterative, PyAMGSolver and PETScKrylovSolver.     *)
(*                                                                         *)
(* Python values that may be None are sequences of length at most one:     *)
(* None is <<>> and a value v is <<v>>.  Matrices are objects with an      *)
(* identity (1..NMtx) and a content (MtxVal); two objects may hold the     *)
(* same content.  The numerical back ends are opaque: a direct solve is a  *)
(* function of the factorized content and the right-hand side, an          *)
(* iterative solve returns any outcome code and any vector.                *)
(***************************************************************************)
EXTENDS Integers, Sequences, FiniteSets, TLC

\* ------------------------------------------------------------- bounds
\* Number of distinct matrix objects a caller can hold.
NMtx == 3
\* Number of distinct right-hand sides.
NRhs == 2
\* Number of distinct tolerance / iteration-cap values.
NTol == 2
\* Raw outcome codes of an iterative routine range over -MaxInfo..MaxInfo.
MaxInfo == 2
\* Number of distinct vectors an iterative back end can return.
NSol == 2
\* Native vector pairs one PETSc adapter allocates over its lifetime.
MaxAlloc == 2

\* ------------------------------------------------------------- values
None == <<>>
Some(v) == <<v>>
Val(o) == o[1]

Mtx == 1..NMtx
\* Content of a matrix object: objects 2k-1 and 2k hold equal content.
MtxVal(m) == (m + 1) \div 2
Rhs == 1..NRhs
Tol == 1..NTol
Sols == 1..NSol

\* Contents of dense vectors: a right-hand side, an initial guess, a vector
\* computed by an iterative back end, a freshly allocated native vector.
RhsVec(b) == <<"b", b>>
X0Vec(k) == <<"x0", k>>
SolVec(k) == <<"x", k>>
ZeroVec == <<"zero", 0>>

\* Slots of the caller's program that can hold an adapter.
Solo == {1}
SideBySide == {1, 2}
Slots == SideBySide

\* sfepy.base.base.get_default(arg, default)
get_default(arg, default) == IF arg = None THEN default ELSE arg

\* A configuration object (Struct) as the process_conf methods build it.
Conf(method, presolve, warn, i_max, eps_a, eps_r, accel, precond) ==
    [method |-> method, presolve |-> presolve, warn |-> warn,
     i_max |-> i_max, eps_a |-> eps_a, eps_r |-> eps_r,
     accel |-> accel, precond |-> precond]

NoConf == Conf("", FALSE, FALSE, None, None, None, None, None)

\* A status object handed in by the caller, not yet filled in.
EmptyStatus == [reason |-> None]

\* ------------------------------------------------------------- state
VARIABLES
    importable,   \* modules an import statement of this runtime can load
    umfpack_ok,   \* whether an importable umfpack module has UMFPACK_OK
    useUmfpack,   \* the sparse direct module's process-wide switch
    objs,         \* the adapter held by each slot
    last,         \* the operation that just returned to the caller, as the
                  \* caller observes it; NoObs once the caller has gone on
    kept          \* a solution array the caller kept from an earlier solve

vars == <<importable, umfpack_ok, useUmfpack, objs, last, kept>>

\* ------------------------------------------------------------ imports
SlsImports == <<"scipy.linsolve", "scipy.splinalg.dsolve",
                "scipy.sparse.linalg.dsolve">>
UmImports == <<"scipy.linsolve.umfpack", "scipy.splinalg.dsolve.umfpack",
               "scipy.sparse.linalg.dsolve.umfpack", "scikits.umfpack">>

SeqRange(s) == {s[k] : k \in 1..Len(s)}

\* The loop of try_imports from statement k on.  `exec imp; break` ends
\* the loop on the first statement that loads; `except: pass` goes on to
\* the next one.  The else clause belongs to the try statement, whose
\* suite always leaves through break, so its raise is never reached: an
\* exhausted loop falls through to `return locals()` with nothing bound.
RECURSIVE TryImportsFrom(_, _, _, _)
TryImportsFrom(imports, fail_msg, avail, k) ==
    IF k > Len(imports)
    THEN [bound |-> None, exc |-> None]
    ELSE IF imports[k] \in avail
         THEN [bound |-> Some(imports[k]), exc |-> None]
         ELSE TryImportsFrom(imports, fail_msg, avail, k + 1)

try_imports(imports, fail_msg, avail) ==
    TryImportsFrom(imports, fail_msg, avail, 1)


\* ----------------------------------------------------------- adapters
\* A slot that holds no adapter; also the shape of every adapter object.
NoAdapter ==
    [kind |-> "none", conf |-> NoConf, mtx |-> None, status |-> None,
     presolve |-> None, sls |-> None, solve |-> None,
     solver |-> None, converged_reasons |-> {}, mg |-> None,
     eps_a |-> None, eps_r |-> None,
     pmtx |-> None, sol |-> None, rhs |-> None, ksp |-> None,
     nalloc |-> 0]

\* sfepy.solvers.solvers.LinearSolver.__init__(conf, mtx=None, status=None,
\* **kwargs): the object owns the configuration, the matrix reference and
\* the status record, so hasattr(self, 'mtx') holds for every adapter.
LinearSolver__init__(kind, conf, mtx, status) ==
    [NoAdapter EXCEPT !.kind = kind, !.conf = conf, !.mtx = mtx,
                      !.status = status]

\* What an operation did: its pre-state, its arguments, the exception it
\* raised, the lines it printed through output(), the setup work and the
\* back-end solves it made, and what it handed to and got from the back end.
NoObs ==
    [op |-> "none", slot |-> 0, kind |-> "none", args |-> None,
     pre |-> NoAdapter, exc |-> None, out |-> <<>>,
     nsetup |-> 0, nsolve |-> 0, be |-> None, mtx |-> None,
     tol |-> None, start |-> None, info |-> None, bsol |-> None,
     ret |-> None, status |-> None, conf_in |-> None, conf_out |-> None,
     base |-> 0]

\* ---------------------------------------------------- sparse direct
\* hasattr(um, 'UMFPACK_OK') of the umfpack module the runtime loads; the
\* sparse direct module's own isUmfpack flag is the same fact.
IsUmfpack == (SeqRange(UmImports) \cap importable # {}) /\ umfpack_ok

\* The factorization the sparse direct module uses while its switch is `use`.
Backend(use) == IF IsUmfpack /\ use THEN "umfpack" ELSE "superlu"

\* The solution a factorization of content A by back end be gives for b.
DirectSol(be, A, b) == <<be, A, b>>

\* sls.factorized(mtx): the closure keeps the factors of the content.
factorized(m, use) == [be |-> Backend(use), A |-> MtxVal(m)]

\* ScipyDirect._presolve
_presolve(self) ==
    IF self.presolve # None THEN Val(self.presolve) ELSE self.conf.presolve

\* A lookup that never fails, as aux.get('sls') would be.
SlsLookupNeverFails(aux) == FALSE

\* aux['sls'] (line 56) raises KeyError when try_imports bound nothing.
SlsLookupFails(aux) == aux.bound = None

\* The elif chain without its exemption of 'auto'.
UnknownMethodButAuto(method) == method # "superlu" /\ method # "umfpack"

\* Lines 70-76: the elif chain raises for a method that is none of the three.
UnknownMethod(method) ==
    method # "superlu" /\ method # "umfpack" /\ method # "auto"

\* Lines 72-74: the notice of the umfpack fallback.
FallbackNotice(method, is_umfpack, warn) ==
    IF method = "umfpack" /\ ~is_umfpack /\ warn
    THEN << <<"umfpack not available, using superlu!">> >>
    ELSE <<>>

\* The test of lines 83-84 without `self.mtx is not None`.
EagerWithoutMatrixTest(self) == _presolve(self)

\* Lines 83-84: prefactorize when presolve is asked for and a matrix is there.
Eager(self) == _presolve(self) /\ self.mtx # None

\* ScipyDirect.__init__: the adapter built (or the exception), the value the
\* process-wide switch is left with, the notices and the factorizations.
ScipyDirect__init__(kind, conf, mtx, status, kw_presolve) ==
    LET self0 == [LinearSolver__init__(kind, conf, mtx, status)
                      EXCEPT !.presolve = kw_presolve]
        aux == try_imports(SlsImports,
                           Some("cannot import scipy sparse direct solvers!"),
                           importable)
        auxu == try_imports(UmImports, None, importable)
        um == auxu.bound
        is_umfpack == IF um # None THEN umfpack_ok ELSE FALSE
        method == conf.method
        use1 == IF method = "superlu" THEN FALSE ELSE useUmfpack
        use2 == IF method # "superlu" /\ is_umfpack THEN TRUE ELSE use1
        notice == FallbackNotice(method, is_umfpack, conf.warn)
        self1 == [self0 EXCEPT !.sls = aux.bound]
        eager == Eager(self1)
        self2 == [self1 EXCEPT !.solve =
                      IF eager THEN Some(factorized(Val(mtx), use2))
                      ELSE None]
    IN  IF SlsLookupFails(aux)
        THEN [exc |-> Some("KeyError"), self |-> NoAdapter,
              use |-> useUmfpack, out |-> <<>>, nsetup |-> 0, conf |-> conf]
        ELSE IF UnknownMethod(method)
        THEN [exc |-> Some("ValueError"), self |-> NoAdapter,
              use |-> use1, out |-> notice, nsetup |-> 0, conf |-> conf]
        ELSE IF eager /\ mtx = None
        THEN \* sls.factorized(None) raises
             [exc |-> Some("TypeError"), self |-> NoAdapter,
              use |-> use2, out |-> notice, nsetup |-> 1, conf |-> conf]
        ELSE [exc |-> None, self |-> self2, use |-> use2, out |-> notice,
              nsetup |-> IF eager THEN 1 ELSE 0, conf |-> conf]

\* Umfpack.__init__: conf.method = 'umfpack', then ScipyDirect.__init__.
Umfpack__init__(conf, mtx, status, kw_presolve) ==
    ScipyDirect__init__("ls.umfpack", [conf EXCEPT !.method = "umfpack"],
                        mtx, status, kw_presolve)

\* Line 93: the prefactorized closure is used whenever there is one.
IsPrefactorized(self) == self.solve # None

\* A call that uses the closure only when it is passed no matrix.
ScipyDirectCallHonoursMtx(self, rhs, x0, conf, eps_a, eps_r, i_max, mtx, status) ==
    LET be == Backend(useUmfpack)
        f == Val(self.solve)
        x == DirectSol(f.be, f.A, rhs)
        y == DirectSol(be, MtxVal(Val(mtx)), rhs)
    IN  IF mtx # None
        THEN [NoObs EXCEPT !.mtx = mtx, !.nsetup = 1, !.nsolve = 1,
                           !.be = Some(be), !.bsol = Some(y), !.ret = Some(y)]
        ELSE IF IsPrefactorized(self)
        THEN [NoObs EXCEPT !.mtx = self.mtx, !.nsolve = 1, !.be = Some(f.be),
                           !.bsol = Some(x), !.ret = Some(x)]
        ELSE [NoObs EXCEPT !.mtx = self.mtx, !.exc = Some("TypeError"),
                           !.nsolve = 1]

\* A call that solves with the matrix the adapter holds, whatever it is
\* passed.
ScipyDirectCallStoredMtx(self, rhs, x0, conf, eps_a, eps_r, i_max, mtx, status) ==
    LET be == Backend(useUmfpack)
        f == Val(self.solve)
        x == DirectSol(f.be, f.A, rhs)
        y == DirectSol(be, MtxVal(Val(self.mtx)), rhs)
    IN  IF IsPrefactorized(self)
        THEN [NoObs EXCEPT !.mtx = self.mtx, !.nsolve = 1, !.be = Some(f.be),
                           !.bsol = Some(x), !.ret = Some(x)]
        ELSE IF self.mtx = None
        THEN [NoObs EXCEPT !.mtx = self.mtx, !.exc = Some("TypeError"),
                           !.nsolve = 1]
        ELSE [NoObs EXCEPT !.mtx = self.mtx, !.nsetup = 1, !.nsolve = 1,
                           !.be = Some(be), !.bsol = Some(y), !.ret = Some(y)]

\* ScipyDirect.__call__.  sls.spsolve(None, rhs) raises in the back end.
ScipyDirect__call__(self, rhs, x0, conf, eps_a, eps_r, i_max, mtx, status) ==
    LET conf_ == get_default(conf, Some(self.conf))
        mtx_ == get_default(mtx, self.mtx)
        status_ == get_default(status, self.status)
        be == Backend(useUmfpack)
    IN  IF IsPrefactorized(self)
        THEN LET f == Val(self.solve)
                 x == DirectSol(f.be, f.A, rhs)
             IN  [NoObs EXCEPT !.mtx = mtx_, !.nsolve = 1, !.be = Some(f.be),
                               !.bsol = Some(x), !.ret = Some(x)]
        ELSE IF mtx_ = None
        THEN [NoObs EXCEPT !.mtx = mtx_, !.exc = Some("TypeError"),
                           !.nsolve = 1]
        ELSE LET x == DirectSol(be, MtxVal(Val(mtx_)), rhs)
             IN  [NoObs EXCEPT !.mtx = mtx_, !.nsetup = 1, !.nsolve = 1,
                               !.be = Some(be), !.bsol = Some(x),
                               !.ret = Some(x)]

\* The caller is single-threaded: it starts an operation only after it has
\* taken the result of the one before.
Idle == last.op = "none"

\* The arrays the caller may hold on to when it goes on: the one it kept
\* before, or the one a PETSc solve just returned (with the native vector
\* whose memory it shares, 0 for none, and the content it had on return).
Keepable ==
    {kept} \cup
    (IF last.op = "call" /\ last.kind = "ls.petsc" /\ last.ret # None
     THEN {Some([slot |-> last.slot, base |-> last.base,
                 val |-> Val(last.ret)])}
     ELSE {})

\* The caller takes the result of the operation that returned and goes on.
Resume ==
    /\ ~Idle
    /\ last' = NoObs
    /\ kept' \in Keepable
    /\ UNCHANGED <<importable, umfpack_ok, useUmfpack, objs>>

\* The caller constructs a direct adapter in slot i.
Construct(i, r, args) ==
    /\ Idle
    /\ objs[i].kind = "none"
    /\ objs' = [objs EXCEPT ![i] = r.self]
    /\ useUmfpack' = r.use
    /\ last' = [NoObs EXCEPT !.op = "construct", !.slot = i,
                             !.kind = args.kind, !.args = Some(args),
                             !.exc = r.exc, !.out = r.out,
                             !.nsetup = r.nsetup,
                             !.conf_in = Some(args.conf),
                             !.conf_out = Some(r.conf)]
    /\ UNCHANGED <<importable, umfpack_ok, kept>>

ConstructDirect(i, conf, mtx, status, kw_presolve) ==
    Construct(i, ScipyDirect__init__("ls.scipy_direct", conf, mtx, status,
                                     kw_presolve),
              [kind |-> "ls.scipy_direct", conf |-> conf, mtx |-> mtx,
               status |-> status, presolve |-> kw_presolve])

ConstructUmfpack(i, conf, mtx, status, kw_presolve) ==
    Construct(i, Umfpack__init__(conf, mtx, status, kw_presolve),
              [kind |-> "ls.umfpack", conf |-> conf, mtx |-> mtx,
               status |-> status, presolve |-> kw_presolve])

CallArgs(rhs, x0, conf, eps_a, eps_r, i_max, mtx, status) ==
    [rhs |-> rhs, x0 |-> x0, conf |-> conf, eps_a |-> eps_a,
     eps_r |-> eps_r, i_max |-> i_max, mtx |-> mtx, status |-> status]

\* The caller solves with the direct adapter of slot i.
CallDirect(i, rhs, x0, conf, eps_a, eps_r, i_max, mtx, status) ==
    /\ Idle
    /\ objs[i].kind \in {"ls.scipy_direct", "ls.umfpack"}
    /\ last' = [ScipyDirect__call__(objs[i], rhs, x0, conf, eps_a, eps_r,
                                    i_max, mtx, status)
                    EXCEPT !.op = "call", !.slot = i, !.kind = objs[i].kind,
                           !.pre = objs[i], !.conf_in = conf,
                           !.conf_out = conf,
                           !.args = Some(CallArgs(rhs, x0, conf, eps_a,
                                                  eps_r, i_max, mtx, status))]
    /\ UNCHANGED <<importable, umfpack_ok, useUmfpack, objs, kept>>

\* --------------------------------------------------- scipy iterative
\* The routines of the isolve module that getattr(la, name) finds.
IterRegistry == {"cg", "gmres", "bicgstab"}

\* nm.sign
sign(n) == IF n > 0 THEN 1 ELSE IF n < 0 THEN -1 ELSE 0

\* Lines 171-175: the table built by ScipyIterative.__init__.
IterConvergedReasons ==
    [k \in {0, 1, -1} |->
        IF k = 0 THEN "successful exit"
        ELSE IF k = 1 THEN "number of iterations"
        ELSE "illegal input or breakdown"]

\* The outcome itself as the key, without nm.sign.
IterReasonKeyRaw(info) == info

\* Line 188: the key looked up in self.converged_reasons for outcome info.
IterReasonKey(info) == sign(info)

\* d[key] of a Python dict: None stands for the KeyError of a missing key.
Lookup(d, key) == IF key \in DOMAIN d THEN Some(d[key]) ELSE None

\* A binding of whatever name the configuration gives.
IterSolverVerbatim(method) == method

\* Lines 164-170: the routine getattr(la, method) finds, la.cg when the
\* module has no attribute of that name.
IterSolverFor(method) == IF method \in IterRegistry THEN method ELSE "cg"

\* ScipyIterative.__init__
ScipyIterative__init__(conf, mtx, status) ==
    LET self0 == LinearSolver__init__("ls.scipy_iterative", conf, mtx, status)
        found == conf.method \in IterRegistry
        notice == IF found THEN <<>>
                  ELSE << <<"scipy solver %s does not exist!", conf.method>>,
                          <<"using cg instead">> >>
        solver == IterSolverFor(conf.method)
    IN  [exc |-> None,
         self |-> [self0 EXCEPT !.solver = Some(solver),
                                !.converged_reasons = IterConvergedReasons],
         use |-> useUmfpack, out |-> notice, nsetup |-> 0, conf |-> conf]

\* ScipyIterative.__call__; back is what the routine returns, (sol, info).
\* The routine raises when it is given no matrix.
ScipyIterative__call__(self, rhs, x0, conf, eps_a, eps_r, i_max, mtx, status, back) ==
    LET conf_ == get_default(conf, Some(self.conf))
        eps_r_ == get_default(eps_r, self.conf.eps_r)
        i_max_ == get_default(i_max, self.conf.i_max)
        mtx_ == get_default(mtx, self.mtx)
        status_ == get_default(status, self.status)
        reason == Lookup(self.converged_reasons, IterReasonKey(back.info))
        obs == [NoObs EXCEPT !.mtx = mtx_, !.nsolve = 1,
                             !.be = self.solver, !.start = x0,
                             !.status = status_,
                             !.tol = Some([atol |-> None, rtol |-> eps_r_,
                                           max_it |-> i_max_])]
    IN  IF mtx_ = None
        THEN [obs EXCEPT !.exc = Some("TypeError")]
        ELSE IF reason = None
        THEN [obs EXCEPT !.exc = Some("KeyError"), !.info = Some(back.info),
                         !.bsol = Some(back.sol)]
        ELSE [obs EXCEPT !.info = Some(back.info), !.bsol = Some(back.sol),
                         !.out = << <<self.conf.method, back.info,
                                      Val(reason)>> >>,
                         !.ret = Some(back.sol)]

ConstructIterative(i, conf, mtx, status) ==
    Construct(i, ScipyIterative__init__(conf, mtx, status),
              [kind |-> "ls.scipy_iterative", conf |-> conf, mtx |-> mtx,
               status |-> status, presolve |-> None])

\* The caller solves with the iterative adapter of slot i.
CallIterative(i, rhs, x0, conf, eps_a, eps_r, i_max, mtx, status, back) ==
    /\ Idle
    /\ objs[i].kind = "ls.scipy_iterative"
    /\ last' = [ScipyIterative__call__(objs[i], rhs, x0, conf, eps_a, eps_r,
                                       i_max, mtx, status, back)
                    EXCEPT !.op = "call", !.slot = i, !.kind = objs[i].kind,
                           !.pre = objs[i], !.conf_in = conf,
                           !.conf_out = conf,
                           !.args = Some(CallArgs(rhs, x0, conf, eps_a,
                                                  eps_r, i_max, mtx, status))]
    /\ UNCHANGED <<importable, umfpack_ok, useUmfpack, objs, kept>>

\* ------------------------------------------------------------ pyamg
\* The hierarchy builders that getattr(pyamg, name) finds.
AmgRegistry == {"smoothed_aggregation_solver", "ruge_stuben_solver"}

\* `a is b` for matrix references (None included).
SameObject(a, b) == a = b

\* `a == b` for matrix references: equal content counts as the same.
EqualContent(a, b) ==
    IF a = None \/ b = None THEN a = b ELSE MtxVal(Val(a)) = MtxVal(Val(b))

\* The test of line 258 with == in place of `is`.
NeedsRebuildByValue(self, mtx) ==
    (self.mg = None) \/ ~EqualContent(mtx, self.mtx)

\* Line 258: whether the call builds the hierarchy anew.
NeedsRebuild(self, mtx) == (self.mg = None) \/ ~SameObject(mtx, self.mtx)

\* self.solver(mtx): the hierarchy of a matrix object.
Hierarchy(routine, m) == [routine |-> routine, from |-> m, A |-> MtxVal(m)]

\* Lines 239-245: the builder getattr(pyamg, method) finds,
\* pyamg.smoothed_aggregation_solver when there is none of that name.
AmgSolverFor(method) ==
    IF method \in AmgRegistry THEN method ELSE "smoothed_aggregation_solver"

\* PyAMGSolver.__init__
PyAMGSolver__init__(conf, mtx, status) ==
    LET self0 == [LinearSolver__init__("ls.pyamg", conf, mtx, status)
                      EXCEPT !.eps_r = conf.eps_r]
        found == conf.method \in AmgRegistry
        notice == IF found THEN <<>>
                  ELSE << <<"pyamg.%s does not exist!", conf.method>>,
                          <<"using pyamg.smoothed_aggregation_solver instead">> >>
        solver == AmgSolverFor(conf.method)
        self1 == [self0 EXCEPT !.solver = Some(solver)]
        self2 == IF mtx # None
                 THEN [self1 EXCEPT !.mg = Some(Hierarchy(solver, Val(mtx)))]
                 ELSE self1
    IN  IF "pyamg" \notin importable
        THEN [exc |-> Some("ImportError"), self |-> NoAdapter,
              use |-> useUmfpack, out |-> <<>>, nsetup |-> 0, conf |-> conf]
        ELSE [exc |-> None, self |-> self2, use |-> useUmfpack,
              out |-> notice, nsetup |-> IF mtx # None THEN 1 ELSE 0,
              conf |-> conf]

\* PyAMGSolver.__call__: the adapter after the call and what the call did;
\* sol is the vector mg.solve returns.  self.solver(None) raises.
PyAMGSolver__call__(self, rhs, x0, conf, eps_a, eps_r, i_max, mtx, status, sol) ==
    LET conf_ == Val(get_default(conf, Some(self.conf)))
        eps_r_ == get_default(eps_r, self.eps_r)
        mtx_ == get_default(mtx, self.mtx)
        status_ == get_default(status, self.status)
        rebuild == NeedsRebuild(self, mtx_)
        self1 == IF rebuild
                 THEN [self EXCEPT
                          !.mg = Some(Hierarchy(Val(self.solver), Val(mtx_))),
                          !.mtx = mtx_]
                 ELSE self
        obs == [NoObs EXCEPT !.mtx = mtx_, !.status = status_,
                             !.nsetup = IF rebuild THEN 1 ELSE 0]
    IN  IF rebuild /\ mtx_ = None
        THEN [self |-> self, obs |-> [obs EXCEPT !.exc = Some("TypeError")]]
        ELSE [self |-> self1,
              obs |-> [obs EXCEPT
                          !.nsolve = 1, !.be = self1.mg, !.start = x0,
                          !.tol = Some([atol |-> None, rtol |-> eps_r_,
                                        max_it |-> None,
                                        accel |-> conf_.accel]),
                          !.bsol = Some(sol), !.ret = Some(sol)]]

ConstructPyAMG(i, conf, mtx, status) ==
    Construct(i, PyAMGSolver__init__(conf, mtx, status),
              [kind |-> "ls.pyamg", conf |-> conf, mtx |-> mtx,
               status |-> status, presolve |-> None])

\* The caller solves with an adapter whose call changes the adapter.
CallStateful(i, r, args) ==
    /\ Idle
    /\ objs' = [objs EXCEPT ![i] = r.self]
    /\ last' = [r.obs EXCEPT !.op = "call", !.slot = i,
                             !.kind = objs[i].kind, !.pre = objs[i],
                             !.conf_in = args.conf, !.conf_out = args.conf,
                             !.args = Some(args)]
    /\ UNCHANGED <<importable, umfpack_ok, useUmfpack, kept>>

CallPyAMG(i, rhs, x0, conf, eps_a, eps_r, i_max, mtx, status, sol) ==
    /\ objs[i].kind = "ls.pyamg"
    /\ CallStateful(i, PyAMGSolver__call__(objs[i], rhs, x0, conf, eps_a,
                                           eps_r, i_max, mtx, status, sol),
                    CallArgs(rhs, x0, conf, eps_a, eps_r, i_max, mtx, status))

\* ------------------------------------------------------------ petsc
\* The table with the CONVERGED_ names only.
PetscConvergedOnly ==
    [k \in {2, 3} |-> IF k = 2 THEN "CONVERGED_RTOL" ELSE "CONVERGED_ATOL"]

\* Lines 330-333: the table built from the integer attributes of
\* ksp.ConvergedReason, value -> name.
PetscConvergedReasons ==
    [k \in {2, 3, 0, -3, -5} |->
        IF k = 2 THEN "CONVERGED_RTOL"
        ELSE IF k = 3 THEN "CONVERGED_ATOL"
        ELSE IF k = 0 THEN "CONVERGED_ITERATING"
        ELSE IF k = -3 THEN "DIVERGED_MAX_IT"
        ELSE "DIVERGED_BREAKDOWN"]

\* The values ksp.reason takes after ksp.solve in this model: converged,
\* iteration limit, breakdown.
KspReasons == {2, -3, -5}

\* PETScKrylovSolver.set_matrix: the native matrix of a matrix object and a
\* freshly allocated pair of native vectors, the n-th the adapter allocates.
set_matrix(m, n) ==
    [pmtx |-> [from |-> m, A |-> MtxVal(m)],
     sol |-> [id |-> n, val |-> ZeroVec],
     rhs |-> [id |-> n, val |-> ZeroVec]]

\* Convert and attach without line 359, self.mtx = mtx.
AttachWithoutCaching(self, mtx) ==
    LET n == self.nalloc + 1
        r == set_matrix(Val(mtx), n)
    IN  [self EXCEPT !.pmtx = Some(r.pmtx), !.sol = Some(r.sol),
                     !.rhs = Some(r.rhs), !.nalloc = n,
                     !.ksp = Some([Val(self.ksp) EXCEPT
                                      !.operators = Some(r.pmtx)])]

\* Lines 324-326 and 356-359: convert, attach, and (in a call) cache mtx.
Attach(self, mtx) ==
    LET n == self.nalloc + 1
        r == set_matrix(Val(mtx), n)
    IN  [self EXCEPT !.pmtx = Some(r.pmtx), !.sol = Some(r.sol),
                     !.rhs = Some(r.rhs), !.nalloc = n, !.mtx = mtx,
                     !.ksp = Some([Val(self.ksp) EXCEPT
                                      !.operators = Some(r.pmtx)])]

\* PETScKrylovSolver.__init__
PETScKrylovSolver__init__(conf, mtx, status) ==
    LET self0 == [LinearSolver__init__("ls.petsc", conf, mtx, status)
                      EXCEPT !.eps_a = conf.eps_a, !.eps_r = conf.eps_r,
                             !.ksp = Some([type |-> conf.method,
                                           pc |-> conf.precond,
                                           operators |-> None,
                                           tol |-> None]),
                             !.converged_reasons = PetscConvergedReasons]
        self1 == IF mtx # None THEN Attach(self0, mtx) ELSE self0
    IN  IF "petsc4py" \notin importable
        THEN [exc |-> Some("ImportError"), self |-> NoAdapter,
              use |-> useUmfpack, out |-> <<>>, nsetup |-> 0, conf |-> conf]
        ELSE [exc |-> None, self |-> self1, use |-> useUmfpack,
              out |-> <<>>, nsetup |-> IF mtx # None THEN 1 ELSE 0,
              conf |-> conf]

\* A call that converts every time.
NeedsSetMatrixAlways(self, mtx) == TRUE

\* Line 355: whether the call converts the matrix and allocates vectors anew.
NeedsSetMatrix(self, mtx) == (self.pmtx = None) \/ ~SameObject(mtx, self.mtx)

\* Tolerances that default to what the KSP object was last set to.
PetscTolerancesSticky(self, conf, eps_a, eps_r, i_max) ==
    LET set == Val(self.ksp).tol
    IN  [atol |-> get_default(eps_a, IF set # None THEN Val(set).atol
                                     ELSE self.eps_a),
         rtol |-> get_default(eps_r, IF set # None THEN Val(set).rtol
                                     ELSE self.eps_r),
         max_it |-> get_default(i_max, IF set # None THEN Val(set).max_it
                                       ELSE self.conf.i_max)]

\* Lines 347-350: the tolerances and the iteration cap the call resolves.
PetscTolerances(self, conf, eps_a, eps_r, i_max) ==
    [atol |-> get_default(eps_a, self.eps_a),
     rtol |-> get_default(eps_r, self.eps_r),
     max_it |-> get_default(i_max, self.conf.i_max)]

\* Lines 364-366: x0 (if given) and rhs copied into the cached vectors.
FillVectors(self, rhs, x0) ==
    [self EXCEPT
        !.sol = IF x0 # None
                THEN Some([Val(self.sol) EXCEPT !.val = X0Vec(Val(x0))])
                ELSE self.sol,
        !.rhs = Some([Val(self.rhs) EXCEPT !.val = RhsVec(rhs)])]

\* An array that is a view of the native vector's memory.
ArrayViewOf(vec) == vec.id

\* Line 368: self.sol[...].copy() owns its memory, it shares none (0) with
\* the native vector.
ArrayCopyOf(vec) == 0

\* What the caller reads in the array it kept: the array's own memory, or
\* the current content of the native vector whose memory it shares.
ReadKept ==
    LET k == Val(kept)
        sol == objs[k.slot].sol
    IN  IF k.base # 0 /\ sol # None /\ Val(sol).id = k.base
        THEN Val(sol).val
        ELSE k.val

\* PETScKrylovSolver.__call__; back is what ksp.solve leaves: the vector it
\* writes into self.sol and ksp.reason.  sps.csr_matrix(None) raises.
PETScKrylovSolver__call__(self, rhs, x0, conf, eps_a, eps_r, i_max, mtx, status, back) ==
    LET conf_ == get_default(conf, Some(self.conf))
        tol == PetscTolerances(self, conf_, eps_a, eps_r, i_max)
        mtx_ == get_default(mtx, self.mtx)
        status_ == get_default(status, self.status)
        convert == NeedsSetMatrix(self, mtx_)
        self1 == IF convert THEN Attach(self, mtx_) ELSE self
        self2 == FillVectors(self1, rhs, x0)
        \* ksp.setTolerances (line 361) and ksp.solve (line 367)
        self3 == [self2 EXCEPT
                     !.ksp = Some([Val(self2.ksp) EXCEPT !.tol = Some(tol)]),
                     !.sol = Some([Val(self2.sol) EXCEPT !.val = back.sol])]
        reason == Lookup(self.converged_reasons, back.info)
        obs == [NoObs EXCEPT !.mtx = mtx_, !.status = status_,
                             !.nsetup = IF convert THEN 1 ELSE 0]
        ran == [obs EXCEPT !.nsolve = 1, !.tol = Some(tol),
                           !.be = self1.pmtx,
                           !.start = Some(Val(self2.sol).val),
                           !.info = Some(back.info),
                           !.bsol = Some(back.sol)]
    IN  IF convert /\ mtx_ = None
        THEN [self |-> self, obs |-> [obs EXCEPT !.exc = Some("TypeError")]]
        ELSE IF reason = None
        THEN [self |-> self3, obs |-> [ran EXCEPT !.exc = Some("KeyError")]]
        ELSE [self |-> self3,
              obs |-> [ran EXCEPT
                          !.out = << <<self.conf.method, self.conf.precond,
                                       back.info, Val(reason)>> >>,
                          !.ret = Some(back.sol),
                          !.base = ArrayCopyOf(Val(self3.sol))]]

ConstructPETSc(i, conf, mtx, status) ==
    Construct(i, PETScKrylovSolver__init__(conf, mtx, status),
              [kind |-> "ls.petsc", conf |-> conf, mtx |-> mtx,
               status |-> status, presolve |-> None])

\* A call that converts is left out once the adapter has allocated MaxAlloc
\* vector pairs.
CallPETSc(i, rhs, x0, conf, eps_a, eps_r, i_max, mtx, status, back) ==
    /\ objs[i].kind = "ls.petsc"
    /\ NeedsSetMatrix(objs[i], get_default(mtx, objs[i].mtx))
           => objs[i].nalloc < MaxAlloc
    /\ CallStateful(i, PETScKrylovSolver__call__(objs[i], rhs, x0, conf,
                                                 eps_a, eps_r, i_max, mtx,
                                                 status, back),
                    CallArgs(rhs, x0, conf, eps_a, eps_r, i_max, mtx, status))

\* ------------------------------------------------------------- inputs
OptMtx == {None} \cup {Some(m) : m \in Mtx}
OptBool == {None, Some(TRUE), Some(FALSE)}
OptTol == {None} \cup {Some(t) : t \in Tol}
OptX0 == {None, Some(1)}
OptStatus == {None, Some(EmptyStatus)}
Opt(S) == {None} \cup {Some(x) : x \in S}

\* ScipyDirect.process_conf: i_max, eps_a and eps_r are None.
DirectMethods == {"auto", "superlu", "umfpack", "bogus"}
DirectConfs ==
    {Conf(m, p, w, None, None, None, None, None) :
        m \in DirectMethods, p \in BOOLEAN, w \in BOOLEAN}

\* ScipyIterative.process_conf: eps_a is None.
IterMethods == {"gmres", "bogus"}
IterConfs ==
    {Conf(m, FALSE, FALSE, Some(t), None, Some(t), None, None) :
        m \in IterMethods, t \in Tol}

\* PyAMGSolver.process_conf: i_max and eps_a are None.
AmgMethods == {"ruge_stuben_solver", "bogus"}
AmgConfs ==
    {Conf(m, FALSE, FALSE, None, None, Some(t), a, None) :
        m \in AmgMethods, t \in Tol, a \in {None, Some("cg")}}

\* Configuration objects passed to a PyAMGSolver call: they differ in accel.
AmgCallConfs ==
    {Conf("ruge_stuben_solver", FALSE, FALSE, None, None, Some(1), a, None) :
        a \in {None, Some("cg")}}

\* PETScKrylovSolver.process_conf
PetscConfs ==
    {Conf("cg", FALSE, FALSE, Some(t), Some(t), Some(t), None, "icc") :
        t \in Tol}

SolVecs == {SolVec(k) : k \in Sols}
IterResults == [sol : SolVecs, info : -MaxInfo..MaxInfo]
KspResults == [sol : SolVecs, info : KspReasons]
\* The results that differ in the outcome only.
IterOutcomes == {r \in IterResults : r.sol = SolVec(1)}
KspOutcomes == {r \in KspResults : r.sol = SolVec(1)}
\* The results of a converged PETSc solve.
Solutions == {r \in KspResults : r.info = 2}
\* The one result of a converged PETSc solve.
Converged == {r \in KspOutcomes : r.info = 2}

\* Runtimes: which of the candidate modules load.  No, the last or the
\* first and the last of the sparse direct candidates, with no, the last or
\* the last two of the umfpack candidates.
SlsRuntimes == {{}, {SlsImports[3]}, {SlsImports[1], SlsImports[3]}}
UmRuntimes == {{}, {UmImports[4]}, {UmImports[3], UmImports[4]}}
Runtimes == {s \cup u : s \in SlsRuntimes, u \in UmRuntimes}

\* Every module the adapters import; pyamg and petsc4py are optional.
Optional == {"pyamg", "petsc4py"}
Everything == SeqRange(SlsImports) \cup SeqRange(UmImports) \cup Optional

\* ---------------------------------------------- direct adapter alone
InitDirect ==
    /\ importable \in Runtimes
    /\ umfpack_ok \in BOOLEAN
    /\ umfpack_ok => SeqRange(UmImports) \cap importable # {}
    /\ useUmfpack \in BOOLEAN
    /\ objs = [i \in Slots |-> NoAdapter]
    /\ last = NoObs
    /\ kept = None

NextDirect ==
    \/ Resume
    \/ \E i \in Solo :
        \/ \E c \in DirectConfs, m \in OptMtx, p \in OptBool :
               ConstructDirect(i, c, m, None, p)
        \/ \E c \in DirectConfs, m \in OptMtx, p \in OptBool :
               ConstructUmfpack(i, c, m, None, p)
        \/ \E b \in Rhs, m \in OptMtx :
               CallDirect(i, b, None, None, None, None, None, m, None)

SpecDirect == InitDirect /\ [][NextDirect]_vars

\* ------------------------------------- direct adapters side by side
NextSideBySide ==
    \/ Resume
    \/ \E i \in SideBySide :
        \/ \E c \in {d \in DirectConfs : ~d.warn}, m \in OptMtx :
               ConstructDirect(i, c, m, None, None)
        \/ \E b \in Rhs :
               CallDirect(i, b, None, None, None, None, None, Some(1), None)

SpecSideBySide == InitDirect /\ [][NextSideBySide]_vars

\* ------------------------------------------- iterative adapter alone
\* A runtime in which every module loads.
InitLoaded ==
    /\ importable = Everything
    /\ umfpack_ok = TRUE
    /\ useUmfpack = TRUE
    /\ objs = [i \in Slots |-> NoAdapter]
    /\ last = NoObs
    /\ kept = None

NextIter ==
    \/ Resume
    \/ \E i \in Solo :
        \/ \E c \in IterConfs, m \in OptMtx :
               ConstructIterative(i, c, m, None)
        \/ \E b \in Rhs, e \in OptTol, n \in OptTol, m \in OptMtx,
              back \in IterOutcomes :
               CallIterative(i, b, None, None, None, e, n, m, None, back)

SpecIter == InitLoaded /\ [][NextIter]_vars

\* ------------------------------------------- multigrid adapter alone
NextAMG ==
    \/ Resume
    \/ \E i \in Solo :
        \/ \E c \in AmgConfs, m \in OptMtx :
               ConstructPyAMG(i, c, m, None)
        \/ \E b \in Rhs, x \in OptX0, c \in Opt(AmgCallConfs), e \in OptTol,
              m \in OptMtx, sol \in SolVecs :
               CallPyAMG(i, b, x, c, None, e, None, m, None, sol)

SpecAMG == InitLoaded /\ [][NextAMG]_vars

\* ----------------------------------------------- petsc adapter alone
\* Calls that vary the right-hand side, the initial guess and the matrix.
NextPETSc ==
    \/ Resume
    \/ \E i \in Solo :
        \/ \E c \in PetscConfs, m \in OptMtx :
               ConstructPETSc(i, c, m, None)
        \/ \E b \in Rhs, x \in OptX0, m \in OptMtx, back \in KspOutcomes :
               CallPETSc(i, b, x, None, None, None, None, m, None, back)

SpecPETSc == InitLoaded /\ [][NextPETSc]_vars

\* Calls that vary the configuration object, the tolerances and the cap.
NextPETScTol ==
    \/ Resume
    \/ \E i \in Solo :
        \/ \E c \in PetscConfs, m \in OptMtx :
               ConstructPETSc(i, c, m, None)
        \/ \E c \in Opt(PetscConfs), ea \in OptTol, er \in OptTol,
              n \in OptTol, back \in Converged :
               CallPETSc(i, 1, None, c, ea, er, n, None, None, back)

SpecPETScTol == InitLoaded /\ [][NextPETScTol]_vars

\* Calls that vary the initial guess, the matrix and the solution the back
\* end leaves; every solve converges.
NextKeep ==
    \/ Resume
    \/ \E i \in Solo :
        \/ \E c \in PetscConfs, m \in OptMtx :
               ConstructPETSc(i, c, m, None)
        \/ \E x \in OptX0, m \in OptMtx, back \in Solutions :
               CallPETSc(i, 1, x, None, None, None, None, m, None, back)

SpecKeep == InitLoaded /\ [][NextKeep]_vars

\* ------------------------------------------- tolerances of every kind
\* Adapters that own a matrix from the start; the calls vary the per-call
\* tolerances and the iteration cap.
NextTol ==
    \/ Resume
    \/ \E i \in Solo :
        \/ \E c \in IterConfs : ConstructIterative(i, c, Some(1), None)
        \/ \E ea \in OptTol, er \in OptTol, n \in OptTol :
               CallIterative(i, 1, None, None, ea, er, n, None, None,
                             [sol |-> SolVec(1), info |-> 0])
        \/ \E c \in AmgConfs : ConstructPyAMG(i, c, Some(1), None)
        \/ \E ea \in OptTol, er \in OptTol, n \in OptTol :
               CallPyAMG(i, 1, None, None, ea, er, n, None, None, SolVec(1))
        \/ \E c \in PetscConfs : ConstructPETSc(i, c, Some(1), None)
        \/ \E ea \in OptTol, er \in OptTol, n \in OptTol,
              back \in Converged :
               CallPETSc(i, 1, None, None, ea, er, n, None, None, back)

SpecTol == InitLoaded /\ [][NextTol]_vars

\* ------------------------------------------------------ every adapter
\* One adapter of any kind, solved with repeatedly; the calls vary the
\* right-hand side, the matrix and what the back end answers.
\* The optional packages pyamg and petsc4py are there or missing.
Init ==
    /\ importable \in {Everything, Everything \ Optional}
    /\ umfpack_ok = TRUE
    /\ useUmfpack = TRUE
    /\ objs = [i \in Slots |-> NoAdapter]
    /\ last = NoObs
    /\ kept = None

Next ==
    \/ Resume
    \/ \E i \in Solo :
        \/ \E c \in DirectConfs, m \in OptMtx :
               ConstructDirect(i, c, m, None, None)
        \/ \E b \in Rhs, m \in OptMtx :
               CallDirect(i, b, None, None, None, None, None, m, None)
        \/ \E c \in IterConfs, m \in OptMtx, st \in OptStatus :
               ConstructIterative(i, c, m, st)
        \/ \E b \in Rhs, m \in OptMtx, back \in IterOutcomes :
               CallIterative(i, b, None, None, None, None, None, m, None,
                             back)
        \/ \E c \in AmgConfs, m \in OptMtx :
               ConstructPyAMG(i, c, m, None)
        \/ \E b \in Rhs, m \in OptMtx, sol \in SolVecs :
               CallPyAMG(i, b, None, None, None, None, None, m, None, sol)
        \/ \E c \in PetscConfs, m \in OptMtx, st \in OptStatus :
               ConstructPETSc(i, c, m, st)
        \/ \E b \in Rhs, m \in OptMtx, back \in KspOutcomes :
               CallPETSc(i, b, None, None, None, None, None, m, None, back)

Spec == Init /\ [][Next]_vars

\* ------------------------------------------------------------- claims
\* The operation that just returned, and the adapter it was made on.
IsCall(kinds) == last.op = "call" /\ last.kind \in kinds
IsConstruct(kinds) == last.op = "construct" /\ last.kind \in kinds
Args == Val(last.args)
Post == objs[last.slot]
\* The matrix a call resolves: its mtx argument, else the cached one.
Resolved == IF Args.mtx # None THEN Args.mtx ELSE last.pre.mtx
DirectKinds == {"ls.scipy_direct", "ls.umfpack"}

\* C1: a PyAMGSolver call builds the hierarchy anew exactly when the adapter
\* has none or the resolved matrix is another object than the cached one;
\* without a rebuild the hierarchy and the cached reference stay as they
\* were, and a rebuild is a single one, makes the resolved matrix the
\* cached one and hands the solve the hierarchy built from it.
C1_RebuildIffNewObject ==
    IsCall({"ls.pyamg"}) =>
        LET pre == last.pre
            changed == pre.mg = None \/ Resolved # pre.mtx
        IN  /\ last.nsetup = (IF changed THEN 1 ELSE 0)
            /\ ~changed => Post.mg = pre.mg /\ Post.mtx = pre.mtx
                           /\ last.be = pre.mg
            /\ (changed /\ last.exc = None) =>
                   /\ Post.mtx = Resolved
                   /\ Val(Post.mg).from = Val(Resolved)
                   /\ last.be = Post.mg

\* A solve that rebuilt for a distinct matrix object of equal content.
C1_Witness ==
    /\ IsCall({"ls.pyamg"})
    /\ last.pre.mg # None
    /\ Resolved # last.pre.mtx
    /\ MtxVal(Val(Resolved)) = MtxVal(Val(last.pre.mtx))
    /\ last.nsetup = 1
    /\ last.nsolve = 1

\* C2: a PETScKrylovSolver call converts the matrix and allocates and
\* attaches new native vectors exactly when the adapter has no native matrix
\* or the resolved matrix is another object than the cached one; otherwise
\* the same native matrix and vectors are kept and rhs is copied into the
\* cached right-hand-side vector.
C2_ReconvertIffNewObject ==
    IsCall({"ls.petsc"}) =>
        LET pre == last.pre
            changed == pre.pmtx = None \/ Resolved # pre.mtx
        IN  /\ last.nsetup = (IF changed THEN 1 ELSE 0)
            /\ ~changed =>
                   /\ Post.pmtx = pre.pmtx
                   /\ Post.nalloc = pre.nalloc
                   /\ Val(Post.sol).id = Val(pre.sol).id
                   /\ Val(Post.rhs).id = Val(pre.rhs).id
                   /\ Val(Post.rhs).val = RhsVec(Args.rhs)
            /\ (changed /\ last.exc = None) =>
                   /\ Post.mtx = Resolved
                   /\ Val(Post.pmtx).from = Val(Resolved)
                   /\ Post.nalloc = pre.nalloc + 1
                   /\ Val(Post.sol).id = Post.nalloc
                   /\ Val(Post.rhs).id = Post.nalloc
                   /\ Val(Post.rhs).val = RhsVec(Args.rhs)
                   /\ Val(Post.ksp).operators = Post.pmtx

\* A second solve on the same matrix object with another right-hand side:
\* the vectors of the first solve are reused.
C2_Witness ==
    /\ IsCall({"ls.petsc"})
    /\ last.pre.pmtx # None
    /\ Args.mtx # None
    /\ Resolved = last.pre.mtx
    /\ Val(last.pre.rhs).val \notin {ZeroVec, RhsVec(Args.rhs)}
    /\ last.nsetup = 0
    /\ Val(Post.rhs).id = Val(last.pre.rhs).id

\* C3: a direct adapter gets its closure only at construction, by one
\* factorization of the matrix given there, and with a closure every solve
\* factorizes nothing, leaves the adapter as it was and returns what that
\* closure gives for rhs, whatever matrix the call passes.
C3_PrefactorizedReuse ==
    /\ IsConstruct(DirectKinds) /\ last.exc = None /\ Post.solve # None
           => /\ last.nsetup = 1
              /\ Args.mtx # None
              /\ Val(Post.solve).A = MtxVal(Val(Args.mtx))
    /\ IsCall(DirectKinds) /\ last.pre.solve # None
           => /\ last.nsetup = 0
              /\ last.nsolve = 1
              /\ last.exc = None
              /\ Post = last.pre
              /\ last.ret = Some(DirectSol(Val(last.pre.solve).be,
                                           Val(last.pre.solve).A, Args.rhs))

\* A solve through the closure that was passed a matrix of other content.
C3_Witness ==
    /\ IsCall(DirectKinds)
    /\ last.pre.solve # None
    /\ Args.mtx # None
    /\ MtxVal(Val(Args.mtx)) # Val(last.pre.solve).A
    /\ last.ret # None

\* The back end config.method selects: SuperLU for 'superlu', else UMFPACK
\* when it is available and SuperLU when it is not.
Selected(method) ==
    IF method # "superlu" /\ IsUmfpack THEN "umfpack" ELSE "superlu"

\* C4: the back end a direct adapter's solve uses, one-shot or through its
\* closure, is the one the adapter's own config.method selects.
C4_BackendFromOwnMethod ==
    (IsCall(DirectKinds) /\ last.exc = None)
        => Val(last.be) = Selected(Post.conf.method)

\* C5: with no sparse direct candidate importable the construction of a
\* direct adapter raises and leaves no adapter; with one importable and a
\* known method it succeeds, whether or not an umfpack candidate loads.
C5_NoBackendIsFatal ==
    IsConstruct(DirectKinds) =>
        /\ SeqRange(SlsImports) \cap importable = {}
               => last.exc # None /\ Post.kind = "none"
        /\ (SeqRange(SlsImports) \cap importable # {}
            /\ ~UnknownMethod(Args.conf.method))
               => last.exc = None /\ Post.kind = last.kind /\ Post.sls # None

\* A construction that failed because no sparse direct candidate loads.
C5_Witness ==
    /\ IsConstruct(DirectKinds)
    /\ SeqRange(SlsImports) \cap importable = {}
    /\ SeqRange(UmImports) \cap importable # {}
    /\ last.exc # None
    /\ Post.kind = "none"

\* The configuration error of a ScipyDirect construction.
ConfigError == Some("ValueError")
NoticeLines == << <<"umfpack not available, using superlu!">> >>

\* C6 as stated: the construction of a direct adapter raises the
\* configuration error exactly when config.method is none of 'auto',
\* 'superlu', 'umfpack'.
C6_ConfigErrorIffUnknownMethod ==
    IsConstruct({"ls.scipy_direct"}) =>
        (last.exc = ConfigError <=> Args.conf.method \notin
                                        {"auto", "superlu", "umfpack"})

\* C6, amended: when a sparse direct candidate is importable, the
\* construction raises the configuration error exactly when config.method
\* is none of the three; 'umfpack' without the UMFPACK capability does not
\* raise, leaves the SuperLU path in use and prints the notice exactly when
\* config.warn; and a construction that raises the configuration error has
\* factorized nothing.  The configuration error is never raised otherwise.
C6_ConfigErrorWhenBackendLoads ==
    IsConstruct({"ls.scipy_direct"}) =>
        LET method == Args.conf.method
            unknown == method \notin {"auto", "superlu", "umfpack"}
        IN  /\ SeqRange(SlsImports) \cap importable # {}
                   => (last.exc = ConfigError <=> unknown)
            /\ last.exc = ConfigError => unknown
            /\ (SeqRange(SlsImports) \cap importable # {}
                /\ method = "umfpack" /\ ~IsUmfpack)
                   => /\ last.exc = None
                      /\ Backend(useUmfpack) = "superlu"
                      /\ Post.solve # None => Val(Post.solve).be = "superlu"
                      /\ (last.out = NoticeLines <=> Args.conf.warn)
            /\ last.exc = ConfigError
                   => last.nsetup = 0 /\ Post.kind = "none"

\* 'umfpack' requested with presolve and a matrix, no UMFPACK capability,
\* warn set: the notice is printed and the closure is a SuperLU one.
C6_Witness ==
    /\ IsConstruct({"ls.scipy_direct"})
    /\ Args.conf.method = "umfpack"
    /\ Args.conf.warn
    /\ ~IsUmfpack
    /\ last.exc = None
    /\ last.out = NoticeLines
    /\ Post.solve # None

\* C7: whatever integer the routine reports, the reason lookup of an
\* iterative solve succeeds and gives 'successful exit' for 0, 'number of
\* iterations' for a positive and 'illegal input or breakdown' for a
\* negative outcome.
C7_ReasonTotal ==
    (IsCall({"ls.scipy_iterative"}) /\ Resolved # None) =>
        LET info == Val(last.info)
        IN  /\ last.exc = None
            /\ Len(last.out) = 1
            /\ last.out[1][2] = info
            /\ last.out[1][3] =
                   (IF info = 0 THEN "successful exit"
                    ELSE IF info > 0 THEN "number of iterations"
                    ELSE "illegal input or breakdown")

\* An outcome beyond 1, reported as the iteration limit.
C7_Witness ==
    /\ IsCall({"ls.scipy_iterative"})
    /\ last.info # None
    /\ Val(last.info) > 1
    /\ last.exc = None
    /\ last.out[1][3] = "number of iterations"

\* The reason text of the solve that just returned.
ReasonText == last.out[1][Len(last.out[1])]

\* C8: after a solve of an adapter that reports convergence, the adapter's
\* status record holds the convergence reason of that solve.
C8_StatusHoldsLastReason ==
    (IsCall({"ls.scipy_iterative", "ls.petsc"}) /\ last.exc = None) =>
        /\ Post.status # None
        /\ Val(Post.status).reason = Some(ReasonText)

\* C9: a solve of any adapter runs the back-end solve at most once, and once
\* the back end has produced a vector, whatever outcome it reports, the call
\* raises nothing and returns that vector.
C9_NoRetryNoError ==
    last.op = "call" =>
        /\ last.nsolve <= 1
        /\ last.bsol # None =>
               /\ last.nsolve = 1
               /\ last.exc = None
               /\ last.ret = last.bsol

\* A solve whose back end reported a failure and whose vector was returned.
C9_Witness ==
    /\ IsCall({"ls.scipy_iterative", "ls.petsc"})
    /\ last.info # None
    /\ Val(last.info) < 0
    /\ last.exc = None
    /\ last.ret = last.bsol
    /\ last.ret # None

\* C10: a PETSc solve that is passed a conf object and no eps_a, eps_r or
\* i_max sets the tolerances and the cap of that conf on the back end.
C10_ConfOverridesTolerances ==
    (IsCall({"ls.petsc"}) /\ last.exc = None /\ Args.conf # None
     /\ Args.eps_a = None /\ Args.eps_r = None /\ Args.i_max = None) =>
        last.tol = Some([atol |-> Val(Args.conf).eps_a,
                         rtol |-> Val(Args.conf).eps_r,
                         max_it |-> Val(Args.conf).i_max])


C12_FallbackNoticeOnlyIfWarn ==
    (IsConstruct({"ls.scipy_direct", "ls.umfpack", "ls.scipy_iterative",
                  "ls.pyamg"})
     /\ ~Args.conf.warn)
        => last.out = <<>>

\* What a kind of adapter needs from the runtime, and from its configuration,
\* to be constructed at all.
BackendLoads(kind) ==
    IF kind \in DirectKinds THEN SeqRange(SlsImports) \cap importable # {}
    ELSE IF kind = "ls.pyamg" THEN "pyamg" \in importable
    ELSE IF kind = "ls.petsc" THEN "petsc4py" \in importable
    ELSE TRUE
ValidConf(kind, conf) ==
    kind = "ls.scipy_direct" => ~UnknownMethod(conf.method)

IterativeKinds == {"ls.scipy_iterative", "ls.pyamg", "ls.petsc"}

\* The tolerances a solve is to hand its back end: the arguments of the
\* call where given, the configured values where not.
Configured(kind, conf, eps_a, eps_r, i_max) ==
    [atol |-> IF kind = "ls.petsc" THEN get_default(eps_a, conf.eps_a)
              ELSE None,
     rtol |-> get_default(eps_r, conf.eps_r),
     max_it |-> IF kind = "ls.pyamg" THEN None
                ELSE get_default(i_max, conf.i_max)]

\* C14: a construction stores the configuration it is given and its
\* tolerances; a solve leaves the stored configuration and the stored
\* tolerances as they were and hands the back end, for each of eps_a, eps_r
\* and i_max that the adapter uses, the argument of this call if there is
\* one and the configured value if not, whatever earlier calls were passed.
C14_OverridesAreTransient ==
    /\ (IsConstruct(IterativeKinds) /\ last.exc = None)
           => /\ Post.conf = Args.conf
              /\ last.kind = "ls.pyamg" => Post.eps_r = Args.conf.eps_r
              /\ last.kind = "ls.petsc"
                     => /\ Post.eps_a = Args.conf.eps_a
                        /\ Post.eps_r = Args.conf.eps_r
    /\ IsCall(IterativeKinds)
           => /\ Post.conf = last.pre.conf
              /\ Post.eps_a = last.pre.eps_a
              /\ Post.eps_r = last.pre.eps_r
              /\ last.nsolve = 1
                     => LET t == Val(last.tol)
                            c == Configured(last.kind, last.pre.conf,
                                            Args.eps_a, Args.eps_r,
                                            Args.i_max)
                        IN  /\ t.atol = c.atol
                            /\ t.rtol = c.rtol
                            /\ t.max_it = c.max_it

\* A PETSc solve without overrides on a KSP object that an earlier solve
\* left with overridden tolerances: the configured ones are set again.
C14_Witness ==
    /\ IsCall({"ls.petsc"})
    /\ Args.eps_a = None /\ Args.eps_r = None /\ Args.i_max = None
    /\ Val(last.pre.ksp).tol # None
    /\ LET was == Val(Val(last.pre.ksp).tol)
           c == last.pre.conf
       IN  /\ was.atol # c.eps_a /\ was.rtol # c.eps_r /\ was.max_it # c.i_max
           /\ last.tol = Some([atol |-> c.eps_a, rtol |-> c.eps_r,
                               max_it |-> c.i_max])
    /\ last.exc = None

\* C15: no construction and no solve changes a field of the configuration
\* object it is given, nor of the one the adapter holds.
C15_ConfNeverMutated ==
    /\ last.op # "none" => last.conf_out = last.conf_in
    /\ last.op = "call" => Post.conf = last.pre.conf

\* The first statement of a list that loads in this runtime, if any.
FirstLoadable(imports) ==
    LET ks == {k \in 1..Len(imports) : imports[k] \in importable}
    IN  IF ks = {} THEN None
        ELSE Some(imports[CHOOSE k \in ks : \A j \in ks : k <= j])
FailMsg == "cannot import scipy sparse direct solvers!"

\* C16: in the construction of a direct adapter, each try_imports binds the
\* first candidate of its list that loads and raises nothing then; with no
\* candidate loading it raises the error carrying fail_msg if it was given
\* one, and returns with nothing bound if it was given none.
C16_TryImportsContract ==
    IsConstruct(DirectKinds) =>
        LET a == try_imports(SlsImports, Some(FailMsg), importable)
            u == try_imports(UmImports, None, importable)
        IN  /\ a.bound = FirstLoadable(SlsImports)
            /\ u.bound = FirstLoadable(UmImports)
            /\ u.exc = None
            /\ a.exc = (IF FirstLoadable(SlsImports) = None
                        THEN Some(FailMsg) ELSE None)

\* C17: a direct adapter constructed with presolve asked for and no matrix
\* is constructed without a factorization, without a closure and without a
\* message about it, and never has a closure afterwards: each of its solves
\* prints nothing and, when the call resolves a matrix, factorizes that
\* matrix once and returns the solution of that factorization for rhs.
C17_PresolveWithoutMatrix ==
    /\ \A i \in Slots :
           (objs[i].kind \in DirectKinds /\ objs[i].mtx = None)
               => objs[i].solve = None
    /\ (IsConstruct(DirectKinds) /\ last.exc = None /\ Args.mtx = None
        /\ _presolve(Post))
           => /\ Post.solve = None
              /\ last.nsetup = 0
              /\ last.out = FallbackNotice(Post.conf.method, IsUmfpack,
                                           Post.conf.warn)
    /\ (IsCall(DirectKinds) /\ last.pre.mtx = None /\ _presolve(last.pre))
           => /\ Post.solve = None
              /\ last.out = <<>>
              /\ Resolved # None
                     => /\ last.exc = None
                        /\ last.nsetup = 1
                        /\ last.nsolve = 1
                        /\ last.mtx = Resolved
                        /\ last.be = Some(Backend(useUmfpack))
                        /\ last.ret = Some(DirectSol(Backend(useUmfpack),
                                                     MtxVal(Val(Resolved)),
                                                     Args.rhs))

\* A solve that is passed a matrix, on an adapter that was constructed with
\* presolve asked for and no matrix.
C17_Witness ==
    /\ IsCall(DirectKinds)
    /\ last.pre.mtx = None
    /\ _presolve(last.pre)
    /\ Args.mtx # None
    /\ last.nsetup = 1
    /\ last.ret # None
    /\ Post.solve = None

CachingKinds == {"ls.pyamg", "ls.petsc"}

\* C18: in every state a hierarchy, and a native matrix with its vectors,
\* is one built from the matrix object the adapter holds, and the KSP
\* object operates on that native matrix; a solve that is passed a matrix
\* leaves it as the matrix held, and a solve that is passed none on an
\* adapter with a cached setup builds nothing and solves with the setup of
\* the matrix held.
C18_CacheCoherence ==
    /\ \A i \in Slots :
           LET a == objs[i]
           IN  /\ a.mg # None
                      => a.mtx # None /\ Val(a.mg).from = Val(a.mtx)
               /\ a.pmtx # None
                      => /\ a.mtx # None
                         /\ Val(a.pmtx).from = Val(a.mtx)
                         /\ a.sol # None /\ a.rhs # None
                         /\ Val(a.ksp).operators = a.pmtx
    /\ (IsCall(CachingKinds) /\ Args.mtx # None /\ last.nsolve = 1)
           => Post.mtx = Args.mtx
    /\ (IsCall(CachingKinds) /\ Args.mtx = None
        /\ (last.pre.mg # None \/ last.pre.pmtx # None))
           => /\ last.nsetup = 0
              /\ last.nsolve = 1
              /\ Post.mtx = last.pre.mtx
              /\ Val(last.be).from = Val(last.pre.mtx)

\* A PETSc solve without a matrix argument after a solve that was passed
\* another matrix than the one before it.
C18_Witness ==
    /\ IsCall({"ls.petsc"})
    /\ Args.mtx = None
    /\ last.pre.nalloc = 2
    /\ last.nsetup = 0
    /\ last.nsolve = 1
    /\ Val(last.be).from = Val(last.pre.mtx)

\* C19: a PETSc solve that ran started the back end from x0 if it was given
\* one, from the freshly allocated vector if it converted the matrix, and
\* otherwise from what the solve before left in the cached solution vector;
\* it leaves its own solution in the cached vector and returns that
\* solution; and an array the caller kept from an earlier solve still reads
\* as it did when it was returned, whatever was solved since.
C19_SolutionVectorCarriesOver ==
    /\ (IsCall({"ls.petsc"}) /\ last.nsolve = 1)
           => /\ last.start =
                     Some(IF Args.x0 # None THEN X0Vec(Val(Args.x0))
                          ELSE IF last.nsetup = 1 THEN ZeroVec
                          ELSE Val(last.pre.sol).val)
              /\ Val(Post.sol).val = Val(last.bsol)
              /\ last.exc = None => last.ret = last.bsol
    /\ kept # None => ReadKept = Val(kept).val

\* A solve without x0 on the unchanged matrix that started from the
\* solution the caller kept from an earlier solve and left another one.
C19_Witness ==
    /\ IsCall({"ls.petsc"})
    /\ kept # None
    /\ Args.x0 = None
    /\ last.nsetup = 0
    /\ last.exc = None
    /\ last.start = Some(Val(kept).val)
    /\ Val(last.bsol) # Val(kept).val
    /\ Val(Post.sol).val = Val(last.bsol)
    /\ ReadKept = Val(kept).val

=============================================================================
